---- MODULE Spec2Model ----
(***************************************************************************)
(* Model of vms/platformvm/metrics.go: the platformvm metric set, its      *)
(* Initialize operation and the AcceptBlock / AcceptTx dispatchers.         *)
(*                                                                         *)
(* An error value is a sequence of messages; the empty sequence is nil.    *)
(* A counter handle is a sequence too: <<>> is the nil interface value of  *)
(* a field that was never assigned, <<v>> a counter whose value is v.      *)
(***************************************************************************)
EXTENDS Integers, Sequences, FiniteSets, TLC

\* ------------------------------------------------------------------ bounds

\* Longest transaction list of a Standard block.
MaxTxs == 2
\* Acceptance calls (AcceptBlock, AcceptTx) in one behaviour.
MaxAccepts == 1
\* Initialize calls in one behaviour.
MaxInits == 2
\* Most metric names the fake registration backend refuses.
MaxFail == 2
\* Concurrent callers, and the longest Standard block they submit.
NThreads == 2
ConcMaxTxs == 1
\* Where Initialize is repeated between acceptance calls: the acceptance calls of
\* one behaviour and the longest Standard block.
LifeMaxAccepts == 3
LifeMaxTxs == 1

\* ------------------------------------------------------------------ taxonomy

Gauges == {"percentConnected", "totalStake"}

BlockCounters ==
  {"numAbortBlocks", "numAtomicBlocks", "numCommitBlocks", "numProposalBlocks",
   "numStandardBlocks"}

TxCounters ==
  {"numAddDelegatorTxs", "numAddSubnetValidatorTxs", "numAddValidatorTxs",
   "numAdvanceTimeTxs", "numCreateChainTxs", "numCreateSubnetTxs", "numExportTxs",
   "numImportTxs", "numRewardValidatorTxs"}

Counters == BlockCounters \cup TxCounters

Fields == Gauges \cup Counters

\* The concrete block types AcceptBlock's type switch names.
BlockKinds == {"Abort", "Atomic", "Commit", "Proposal", "Standard"}

\* The unsigned transaction types AcceptTx's type switch names.
TxKinds ==
  {"AddDelegator", "AddSubnetValidator", "AddValidator", "AdvanceTime", "CreateChain",
   "CreateSubnet", "Import", "Export", "RewardValidator"}

\* A block or a payload of a type neither switch names.
UnknownKind == "Unknown"

NoError == <<>>

errUnknownBlockType == <<"unknown block type">>

errUnknownTxType == <<"unknown transaction type">>

\* ------------------------------------------------------------------ metric construction

newGauge(namespace, name) == [Namespace |-> namespace, Name |-> name]

newBlockMetrics(namespace, name) ==
  [Namespace |-> namespace, Name |-> name \o "_blks_accepted"]

newTxMetrics(namespace, name) ==
  [Namespace |-> namespace, Name |-> name \o "_txs_accepted"]

\* The descriptor Initialize gives the metric it stores in each field.
Desc(namespace, f) ==
  CASE f = "percentConnected" -> newGauge(namespace, "percent_connected")
    [] f = "totalStake" -> newGauge(namespace, "total_staked")
    [] f = "numAbortBlocks" -> newBlockMetrics(namespace, "abort")
    [] f = "numAtomicBlocks" -> newBlockMetrics(namespace, "atomic")
    [] f = "numCommitBlocks" -> newBlockMetrics(namespace, "commit")
    [] f = "numProposalBlocks" -> newBlockMetrics(namespace, "proposal")
    [] f = "numStandardBlocks" -> newBlockMetrics(namespace, "standard")
    [] f = "numAddDelegatorTxs" -> newTxMetrics(namespace, "add_delegator")
    [] f = "numAddSubnetValidatorTxs" -> newTxMetrics(namespace, "add_subnet_validator")
    [] f = "numAddValidatorTxs" -> newTxMetrics(namespace, "add_validator")
    [] f = "numAdvanceTimeTxs" -> newTxMetrics(namespace, "advance_time")
    [] f = "numCreateChainTxs" -> newTxMetrics(namespace, "create_chain")
    [] f = "numCreateSubnetTxs" -> newTxMetrics(namespace, "create_subnet")
    [] f = "numExportTxs" -> newTxMetrics(namespace, "export")
    [] f = "numImportTxs" -> newTxMetrics(namespace, "import")
    [] f = "numRewardValidatorTxs" -> newTxMetrics(namespace, "reward_validator")

\* The fields in the order Initialize passes their metrics to Register.
RegisterOrder ==
  <<"percentConnected", "totalStake",
    "numAbortBlocks", "numAtomicBlocks", "numCommitBlocks", "numProposalBlocks",
    "numStandardBlocks",
    "numAddDelegatorTxs", "numAddSubnetValidatorTxs", "numAddValidatorTxs",
    "numAdvanceTimeTxs", "numCreateChainTxs", "numCreateSubnetTxs", "numExportTxs",
    "numImportTxs", "numRewardValidatorTxs">>

\* ------------------------------------------------------------------ collaborators

\* The name a metric is registered under: namespace and name joined by "_".
FQName(desc) ==
  IF desc.Namespace = "" THEN desc.Name ELSE desc.Namespace \o "_" \o desc.Name

RegisterError(fq) == <<"register " \o fq>>

\* registerer.Register: the backend refuses a name it already holds and a name it
\* was configured to refuse (rej); otherwise it records the name.
Register(reg, rej, desc) ==
  IF FQName(desc) \in reg \/ desc.Name \in rej
    THEN [registered |-> reg, err |-> RegisterError(FQName(desc))]
    ELSE [registered |-> reg \cup {FQName(desc)}, err |-> NoError]

RECURSIVE Concat(_)
Concat(errors) == IF errors = <<>> THEN <<>> ELSE Head(errors) \o Concat(Tail(errors))

\* wrappers.Errs.Add: every non-nil error given is merged into errs.Err.
ErrsAdd(errs, errors) == [Err |-> errs.Err \o Concat(errors)]

\* ------------------------------------------------------------------ Initialize

\* The argument list of errs.Add: Go evaluates every Register call, in order,
\* before Add is entered.
RECURSIVE RegisterAll(_, _, _, _)
RegisterAll(reg, rej, namespace, fields) ==
  IF fields = <<>>
    THEN [registered |-> reg, attempted |-> <<>>, errors |-> <<>>]
    ELSE LET d == Desc(namespace, Head(fields))
             r == Register(reg, rej, d)
             rest == RegisterAll(r.registered, rej, namespace, Tail(fields))
         IN [registered |-> rest.registered,
             attempted |-> <<FQName(d)>> \o rest.attempted,
             errors |-> <<r.err>> \o rest.errors]

\* A registration loop that gives up at the first failure.
RECURSIVE RegisterUntilFailure(_, _, _, _)
RegisterUntilFailure(reg, rej, namespace, fields) ==
  IF fields = <<>>
    THEN [registered |-> reg, attempted |-> <<>>, errors |-> <<>>]
    ELSE LET d == Desc(namespace, Head(fields))
             r == Register(reg, rej, d)
             rest == IF r.err # NoError
                       THEN [registered |-> r.registered, attempted |-> <<>>,
                             errors |-> <<>>]
                       ELSE RegisterUntilFailure(r.registered, rej, namespace,
                                                 Tail(fields))
         IN [registered |-> rest.registered,
             attempted |-> <<FQName(d)>> \o rest.attempted,
             errors |-> <<r.err>> \o rest.errors]

RECURSIVE FirstError(_)
FirstError(errors) ==
  IF errors = <<>> THEN NoError
  ELSE IF Head(errors) # NoError THEN Head(errors) ELSE FirstError(Tail(errors))

InitializeFailFast(reg, rej, namespace, apiErr) ==
  LET regd == IF apiErr # NoError
                THEN [registered |-> reg, attempted |-> <<>>, errors |-> <<>>]
                ELSE RegisterUntilFailure(reg, rej, namespace, RegisterOrder)
      errs == ErrsAdd([Err |-> NoError], <<apiErr>> \o regd.errors)
  IN [m |-> [f \in Fields |-> <<0>>], registered |-> regd.registered,
      attempted |-> regd.attempted, errs |-> errs, err |-> errs.Err]

InitializeFirstErrorOnly(reg, rej, namespace, apiErr) ==
  LET regd == RegisterAll(reg, rej, namespace, RegisterOrder)
      errs == [Err |-> FirstError(<<apiErr>> \o regd.errors)]
  IN [m |-> [f \in Fields |-> <<0>>], registered |-> regd.registered,
      attempted |-> regd.attempted, errs |-> errs, err |-> errs.Err]

InitializeDropRegisterErrors(reg, rej, namespace, apiErr) ==
  LET regd == RegisterAll(reg, rej, namespace, RegisterOrder)
      errs == ErrsAdd([Err |-> NoError], <<apiErr>>)
  IN [m |-> [f \in Fields |-> <<0>>], registered |-> regd.registered,
      attempted |-> regd.attempted, errs |-> errs, err |-> errs.Err]

\* metrics.Initialize on a registerer holding reg and refusing rej; apiErr is what
\* metric.NewAPIInterceptor returned. Every field gets a fresh metric at 0.
InitializeResult(reg, rej, namespace, apiErr) ==
  LET regd == RegisterAll(reg, rej, namespace, RegisterOrder)
      errs == ErrsAdd([Err |-> NoError], <<apiErr>> \o regd.errors)
  IN [m |-> [f \in Fields |-> <<0>>], registered |-> regd.registered,
      attempted |-> regd.attempted, errs |-> errs, err |-> errs.Err]

\* ------------------------------------------------------------------ dispatch

IsNil(mm, c) == mm[c] = <<>>

Val(mm, c) == mm[c][1]

\* Every field holds a metric: Initialize has run.
Constructed(mm) == \A f \in Fields : mm[f] # <<>>

\* prometheus.Counter.Inc: one atomic add of 1.
Inc(mm, c) == [mm EXCEPT ![c] = <<mm[c][1] + 1>>]

BlockCounterSwapped(kind) ==
  CASE kind = "Abort" -> "numCommitBlocks"
    [] kind = "Atomic" -> "numAtomicBlocks"
    [] kind = "Commit" -> "numAbortBlocks"
    [] kind = "Proposal" -> "numProposalBlocks"
    [] kind = "Standard" -> "numStandardBlocks"

\* The counter each case of AcceptBlock's type switch increments.
BlockCounterOf(kind) ==
  CASE kind = "Abort" -> "numAbortBlocks"
    [] kind = "Atomic" -> "numAtomicBlocks"
    [] kind = "Commit" -> "numCommitBlocks"
    [] kind = "Proposal" -> "numProposalBlocks"
    [] kind = "Standard" -> "numStandardBlocks"

TxCounterSwapped(kind) ==
  CASE kind = "AddDelegator" -> "numAddDelegatorTxs"
    [] kind = "AddSubnetValidator" -> "numAddSubnetValidatorTxs"
    [] kind = "AddValidator" -> "numAddValidatorTxs"
    [] kind = "AdvanceTime" -> "numAdvanceTimeTxs"
    [] kind = "CreateChain" -> "numCreateChainTxs"
    [] kind = "CreateSubnet" -> "numCreateSubnetTxs"
    [] kind = "Import" -> "numExportTxs"
    [] kind = "Export" -> "numImportTxs"
    [] kind = "RewardValidator" -> "numRewardValidatorTxs"

\* The counter each case of AcceptTx's type switch increments.
TxCounterOf(kind) ==
  CASE kind = "AddDelegator" -> "numAddDelegatorTxs"
    [] kind = "AddSubnetValidator" -> "numAddSubnetValidatorTxs"
    [] kind = "AddValidator" -> "numAddValidatorTxs"
    [] kind = "AdvanceTime" -> "numAdvanceTimeTxs"
    [] kind = "CreateChain" -> "numCreateChainTxs"
    [] kind = "CreateSubnet" -> "numCreateSubnetTxs"
    [] kind = "Import" -> "numImportTxs"
    [] kind = "Export" -> "numExportTxs"
    [] kind = "RewardValidator" -> "numRewardValidatorTxs"

Panic(mm) == [m |-> mm, err |-> NoError, panicked |-> TRUE]

Return(mm, e) == [m |-> mm, err |-> e, panicked |-> FALSE]

\* An AcceptTx that installs a fresh counter in the field before counting.
AcceptTxResultFreshCounter(mm, kind) ==
  IF kind \notin TxKinds THEN Return(mm, errUnknownTxType)
  ELSE IF IsNil(mm, TxCounterOf(kind)) THEN Panic(mm)
  ELSE Return(Inc([mm EXCEPT ![TxCounterOf(kind)] = <<0>>], TxCounterOf(kind)), NoError)

\* metrics.AcceptTx on a payload of the given kind. Inc on a nil counter panics.
AcceptTxResult(mm, kind) ==
  IF kind \notin TxKinds THEN Return(mm, errUnknownTxType)
  ELSE IF IsNil(mm, TxCounterOf(kind)) THEN Panic(mm)
  ELSE Return(Inc(mm, TxCounterOf(kind)), NoError)

\* The loop of the StandardBlock case: the first error ends it.
RECURSIVE AcceptTxs(_, _)
AcceptTxs(mm, txs) ==
  IF txs = <<>> THEN Return(mm, NoError)
  ELSE LET r == AcceptTxResult(mm, Head(txs))
       IN IF r.panicked \/ r.err # NoError THEN r ELSE AcceptTxs(r.m, Tail(txs))

\* A loop that remembers the first error but dispatches the whole list.
RECURSIVE AcceptTxsKeepGoing(_, _)
AcceptTxsKeepGoing(mm, txs) ==
  IF txs = <<>> THEN Return(mm, NoError)
  ELSE LET r == AcceptTxResult(mm, Head(txs))
           rest == AcceptTxsKeepGoing(r.m, Tail(txs))
       IN IF r.panicked THEN r
          ELSE IF r.err # NoError THEN Return(rest.m, r.err) ELSE rest

AcceptBlockKeepGoing(mm, b) ==
  IF b.kind \notin BlockKinds THEN Return(mm, errUnknownBlockType)
  ELSE IF IsNil(mm, BlockCounterOf(b.kind)) THEN Panic(mm)
  ELSE LET counted == Inc(mm, BlockCounterOf(b.kind))
       IN CASE b.kind \in {"Abort", "Commit"} -> Return(counted, NoError)
            [] b.kind \in {"Atomic", "Proposal"} -> AcceptTxResult(counted, b.txs[1])
            [] b.kind = "Standard" -> AcceptTxsKeepGoing(counted, b.txs)

AcceptBlockDefaultNil(mm, b) ==
  IF b.kind \notin BlockKinds THEN Return(mm, NoError)
  ELSE IF IsNil(mm, BlockCounterOf(b.kind)) THEN Panic(mm)
  ELSE LET counted == Inc(mm, BlockCounterOf(b.kind))
       IN CASE b.kind \in {"Abort", "Commit"} -> Return(counted, NoError)
            [] b.kind \in {"Atomic", "Proposal"} -> AcceptTxResult(counted, b.txs[1])
            [] b.kind = "Standard" -> AcceptTxs(counted, b.txs)

AcceptBlockSwallowTxError(mm, b) ==
  IF b.kind \notin BlockKinds THEN Return(mm, errUnknownBlockType)
  ELSE IF IsNil(mm, BlockCounterOf(b.kind)) THEN Panic(mm)
  ELSE LET counted == Inc(mm, BlockCounterOf(b.kind))
       IN CASE b.kind \in {"Abort", "Commit"} -> Return(counted, NoError)
            [] b.kind \in {"Atomic", "Proposal"} ->
                 LET r == AcceptTxResult(counted, b.txs[1])
                 IN IF r.panicked THEN r ELSE Return(r.m, NoError)
            [] b.kind = "Standard" -> AcceptTxs(counted, b.txs)

\* An AcceptBlock whose single-transaction cases count the payload in a fresh counter.
AcceptBlockFreshTxCounter(mm, b) ==
  IF b.kind \notin BlockKinds THEN Return(mm, errUnknownBlockType)
  ELSE IF IsNil(mm, BlockCounterOf(b.kind)) THEN Panic(mm)
  ELSE LET counted == Inc(mm, BlockCounterOf(b.kind))
       IN CASE b.kind \in {"Abort", "Commit"} -> Return(counted, NoError)
            [] b.kind \in {"Atomic", "Proposal"} ->
                 AcceptTxResultFreshCounter(counted, b.txs[1])
            [] b.kind = "Standard" -> AcceptTxs(counted, b.txs)

\* metrics.AcceptBlock on block b = [kind, txs]: a known block is counted first,
\* then its transactions are dispatched.
AcceptBlockResult(mm, b) ==
  IF b.kind \notin BlockKinds THEN Return(mm, errUnknownBlockType)
  ELSE IF IsNil(mm, BlockCounterOf(b.kind)) THEN Panic(mm)
  ELSE LET counted == Inc(mm, BlockCounterOf(b.kind))
       IN CASE b.kind \in {"Abort", "Commit"} -> Return(counted, NoError)
            [] b.kind \in {"Atomic", "Proposal"} -> AcceptTxResult(counted, b.txs[1])
            [] b.kind = "Standard" -> AcceptTxs(counted, b.txs)

\* ------------------------------------------------------------------ inputs

Namespaces == {"platform", "avm"}

DefaultNamespace == "platform"

ApiErrors == {NoError, <<"api interceptor">>}

TxInputs == TxKinds \cup {UnknownKind}

TxListsOver(kinds, n) == UNION {[1..k -> kinds] : k \in 0..n}

\* The blocks whose embedded transactions are of the given kinds.
BlocksOver(kinds, n) ==
  {[kind |-> k, txs |-> <<>>] : k \in {"Abort", "Commit", UnknownKind}}
    \cup {[kind |-> k, txs |-> <<t>>] : k \in {"Atomic", "Proposal"}, t \in kinds}
    \cup {[kind |-> "Standard", txs |-> s] : s \in TxListsOver(kinds, n)}

BlockInputs(n) == BlocksOver(TxInputs, n)

\* The payloads of the blocks accepted where Initialize is repeated; AcceptTx itself
\* is called there with every payload of TxInputs.
LifeTxInputs == {"Import", "Export", UnknownKind}

MetricNames == {Desc("", f).Name : f \in Fields}

RejectSets == {S \in SUBSET MetricNames : Cardinality(S) <= MaxFail}

\* ------------------------------------------------------------------ state

VARIABLES
  m,           \* the metrics struct: field -> counter handle
  registered,  \* names the registerer holds
  rejects,     \* names the registerer refuses
  attempted,   \* Register calls of the last Initialize, in order
  errs,        \* the wrappers.Errs of the last Initialize
  err,         \* what the last call returned
  panicked,    \* the last call panicked on a nil counter
  pre,         \* m when the last acceptance call began
  peak,        \* highest value each counter field has held since the last Initialize
  preReg,      \* registered when the last Initialize began
  lastOp,      \* the last call and its arguments
  okNs,        \* namespaces some Initialize returned nil for
  nInits,
  nAccepts,
  threads      \* concurrent callers: thread -> [call, pc, i, ret]

vars ==
  <<m, registered, rejects, attempted, errs, err, panicked, pre, peak, preReg, lastOp, okNs,
    nInits, nAccepts, threads>>

NoOp ==
  [op |-> "none", kind |-> "", txs |-> <<>>, namespace |-> "", apiErr |-> NoError,
   repeat |-> FALSE]

\* The zero value of the metrics struct: every field is nil.
Zero == [f \in Fields |-> <<>>]

InitWith(rej) ==
  /\ m = Zero
  /\ registered = {}
  /\ rejects = rej
  /\ attempted = <<>>
  /\ errs = [Err |-> NoError]
  /\ err = NoError
  /\ panicked = FALSE
  /\ pre = Zero
  /\ peak = [c \in Counters |-> 0]
  /\ preReg = {}
  /\ lastOp = NoOp
  /\ okNs = {}
  /\ nInits = 0
  /\ nAccepts = 0
  /\ threads = <<>>

\* A registry that refuses nothing but duplicates.
Init == InitWith({})

\* A fake registration backend that refuses some names.
InitReg == \E rej \in RejectSets : InitWith(rej)

\* ------------------------------------------------------------------ operations

\* limit is the number of Initialize calls the behaviour may make.
Initialize(namespace, apiErr, limit) ==
  /\ ~panicked
  /\ nInits < limit
  /\ \E r \in {InitializeResult(registered, rejects, namespace, apiErr)} :
        /\ m' = r.m
        /\ registered' = r.registered
        /\ attempted' = r.attempted
        /\ errs' = r.errs
        /\ err' = r.err
        /\ pre' = r.m
        /\ peak' = [c \in Counters |-> 0]
        /\ okNs' = IF r.err = NoError THEN okNs \cup {namespace} ELSE okNs
  /\ preReg' = registered
  /\ lastOp' = [NoOp EXCEPT !.op = "Initialize", !.namespace = namespace,
                            !.apiErr = apiErr, !.repeat = namespace \in okNs]
  /\ nInits' = nInits + 1
  /\ UNCHANGED <<rejects, panicked, nAccepts, threads>>

\* The highest values on record once the counters hold what mm holds.
Highest(pk, mm) ==
  [c \in Counters |-> IF mm[c] # <<>> /\ mm[c][1] > pk[c] THEN mm[c][1] ELSE pk[c]]

\* limit is the number of acceptance calls the behaviour may make.
AcceptBlock(b, limit) ==
  /\ ~panicked
  /\ nAccepts < limit
  /\ \E r \in {AcceptBlockResult(m, b)} :
        /\ m' = r.m
        /\ err' = r.err
        /\ panicked' = r.panicked
        /\ peak' = Highest(peak, r.m)
  /\ pre' = m
  /\ lastOp' = [NoOp EXCEPT !.op = "AcceptBlock", !.kind = b.kind, !.txs = b.txs]
  /\ nAccepts' = nAccepts + 1
  /\ UNCHANGED <<registered, rejects, attempted, errs, preReg, okNs, nInits, threads>>

AcceptTx(kind, limit) ==
  /\ ~panicked
  /\ nAccepts < limit
  /\ \E r \in {AcceptTxResult(m, kind)} :
        /\ m' = r.m
        /\ err' = r.err
        /\ panicked' = r.panicked
        /\ peak' = Highest(peak, r.m)
  /\ pre' = m
  /\ lastOp' = [NoOp EXCEPT !.op = "AcceptTx", !.kind = kind]
  /\ nAccepts' = nAccepts + 1
  /\ UNCHANGED <<registered, rejects, attempted, errs, preReg, okNs, nInits, threads>>

\* The supported life cycle: Initialize runs once, on a registry that refuses only
\* duplicates, and acceptance events follow.
Next ==
  \/ Initialize(DefaultNamespace, NoError, 1)
  \/ \E b \in BlockInputs(MaxTxs) : AcceptBlock(b, MaxAccepts)
  \/ \E kind \in TxInputs : AcceptTx(kind, MaxAccepts)

Spec == Init /\ [][Next]_vars

\* Initialize alone, repeated, on a backend that refuses some names.
NextReg ==
  \E namespace \in Namespaces, apiErr \in ApiErrors :
    Initialize(namespace, apiErr, MaxInits)

SpecReg == InitReg /\ [][NextReg]_vars

\* Initialize repeated between acceptance events.
NextLife ==
  \/ Initialize(DefaultNamespace, NoError, MaxInits)
  \/ \E b \in BlocksOver(LifeTxInputs, LifeMaxTxs) : AcceptBlock(b, LifeMaxAccepts)
  \/ \E kind \in TxInputs : AcceptTx(kind, LifeMaxAccepts)

SpecLife == Init /\ [][NextLife]_vars

\* ------------------------------------------------------------------ concurrent callers

\* The payloads and blocks concurrent callers submit.
ConcTxInputs == {"Import", "Export", UnknownKind}

ConcCalls ==
  {[op |-> "AcceptTx", kind |-> k, txs |-> <<k>>] : k \in ConcTxInputs}
    \cup {[op |-> "AcceptBlock", kind |-> k, txs |-> <<>>] :
            k \in {"Abort", "Commit", UnknownKind}}
    \cup {[op |-> "AcceptBlock", kind |-> k, txs |-> <<t>>] :
            k \in {"Atomic", "Proposal"}, t \in ConcTxInputs}
    \cup {[op |-> "AcceptBlock", kind |-> "Standard", txs |-> s] :
            s \in UNION {[1..n -> ConcTxInputs] : n \in 0..ConcMaxTxs}}

\* A caller at the entry of its call: AcceptBlock starts at the block switch,
\* AcceptTx at the transaction switch.
Entered(call) ==
  [call |-> call, pc |-> IF call.op = "AcceptBlock" THEN "block" ELSE "tx", i |-> 1,
   ret |-> NoError, seen |-> 0]

Done(th, e) == [th EXCEPT !.pc = "done", !.ret = e]

\* The callers are started together, after Initialize has returned.
Start ==
  /\ threads = <<>>
  /\ ~panicked
  /\ Constructed(m)
  /\ \E calls \in [1..NThreads -> ConcCalls] :
        threads' = [t \in 1..NThreads |-> Entered(calls[t])]
  /\ UNCHANGED <<m, registered, rejects, attempted, errs, err, panicked, pre, peak, preReg,
                 lastOp, okNs, nInits, nAccepts>>

\* Caller t runs AcceptBlock's type switch: an unknown block returns at once, a
\* known one is counted and the call goes on to its transactions, if it has any.
ThreadAcceptBlock(t) ==
  /\ t \in DOMAIN threads
  /\ threads[t].pc = "block"
  /\ LET th == threads[t]
         b == th.call
     IN IF b.kind \notin BlockKinds
          THEN /\ threads' = [threads EXCEPT ![t] = Done(th, errUnknownBlockType)]
               /\ m' = m
          ELSE /\ m' = Inc(m, BlockCounterOf(b.kind))
               /\ threads' = [threads EXCEPT ![t] =
                                IF b.kind \in {"Abort", "Commit"} \/ b.txs = <<>>
                                  THEN Done(th, NoError)
                                  ELSE [th EXCEPT !.pc = "tx"]]
  /\ UNCHANGED <<registered, rejects, attempted, errs, err, panicked, pre, peak, preReg,
                 lastOp, okNs, nInits, nAccepts>>

\* An AcceptTx whose increment is a read in one step and a write in a later one.
ThreadAcceptTxRacy(t) ==
  /\ t \in DOMAIN threads
  /\ threads[t].pc \in {"tx", "write"}
  /\ LET th == threads[t]
         kind == th.call.txs[th.i]
     IN IF kind \notin TxKinds
          THEN /\ threads' = [threads EXCEPT ![t] = Done(th, errUnknownTxType)]
               /\ m' = m
          ELSE IF th.pc = "tx"
            THEN /\ threads' = [threads EXCEPT ![t] =
                                  [th EXCEPT !.pc = "write",
                                             !.seen = m[TxCounterOf(kind)][1]]]
                 /\ m' = m
            ELSE /\ m' = [m EXCEPT ![TxCounterOf(kind)] = <<th.seen + 1>>]
                 /\ threads' = [threads EXCEPT ![t] =
                                  IF th.i = Len(th.call.txs)
                                    THEN Done(th, NoError)
                                    ELSE [th EXCEPT !.pc = "tx", !.i = th.i + 1]]
  /\ UNCHANGED <<registered, rejects, attempted, errs, err, panicked, pre, peak, preReg,
                 lastOp, okNs, nInits, nAccepts>>

\* Caller t runs AcceptTx on its next transaction: an error ends the call, a
\* counted transaction moves a Standard block's loop on.
ThreadAcceptTx(t) ==
  /\ t \in DOMAIN threads
  /\ threads[t].pc = "tx"
  /\ \E r \in {AcceptTxResult(m, threads[t].call.txs[threads[t].i])} :
        LET th == threads[t]
        IN /\ m' = r.m
           /\ threads' = [threads EXCEPT ![t] =
                            IF r.err # NoError THEN Done(th, r.err)
                            ELSE IF th.i = Len(th.call.txs) THEN Done(th, NoError)
                            ELSE [th EXCEPT !.i = th.i + 1]]
  /\ UNCHANGED <<registered, rejects, attempted, errs, err, panicked, pre, peak, preReg,
                 lastOp, okNs, nInits, nAccepts>>

NextConc ==
  \/ Initialize(DefaultNamespace, NoError, 1)
  \/ Start
  \/ \E t \in 1..NThreads : ThreadAcceptBlock(t)
  \/ \E t \in 1..NThreads : ThreadAcceptTx(t)

SpecConc == Init /\ [][NextConc]_vars

\* ------------------------------------------------------------------ properties

Range(s) == {s[i] : i \in DOMAIN s}

\* The counter a variant is named after in the metrics struct.
MatchingBlockCounter(kind) == "num" \o kind \o "Blocks"

MatchingTxCounter(kind) == "num" \o kind \o "Txs"

\* The transactions of a list that precede its first unknown one.
KnownPrefix(txs) ==
  LET bad == {i \in DOMAIN txs : txs[i] \notin TxKinds}
      first == IF bad = {} THEN Len(txs) + 1
               ELSE CHOOSE i \in bad : \A j \in bad : i <= j
  IN SubSeq(txs, 1, first - 1)

Occurrences(txs, c) == Cardinality({i \in DOMAIN txs : MatchingTxCounter(txs[i]) = c})

\* Acceptance events of field c that a call dispatches.
BlockEvents(op, c) ==
  IF op.op = "AcceptBlock" /\ op.kind \in BlockKinds /\ MatchingBlockCounter(op.kind) = c
    THEN 1 ELSE 0

TxEvents(op, c) ==
  CASE op.op = "AcceptTx" -> Occurrences(KnownPrefix(<<op.kind>>), c)
    [] op.op = "AcceptBlock" /\ op.kind \in BlockKinds ->
         Occurrences(KnownPrefix(op.txs), c)
    [] OTHER -> 0

\* m is pre with exactly the counters of `bumped` one higher.
OnlyBumped(bumped) ==
  \A f \in Fields : m[f] = IF f \in bumped THEN <<Val(pre, f) + 1>> ELSE pre[f]

AllNames(namespace) == {FQName(Desc(namespace, f)) : f \in Fields}

AttemptedAll(namespace) ==
  attempted = [i \in 1..Len(RegisterOrder) |-> FQName(Desc(namespace, RegisterOrder[i]))]

\* The registrations of the last Initialize that the backend had to refuse.
ExpectedFailed ==
  {FQName(Desc(lastOp.namespace, f)) : f \in
     {g \in Fields : \/ Desc(lastOp.namespace, g).Name \in rejects
                     \/ FQName(Desc(lastOp.namespace, g)) \in preReg}}

\* C1: AcceptBlock on a block outside the five known kinds returns the
\* unknown-block-type error and leaves every field of the metric set as it was,
\* before Initialize as well as after it.
C1_UnknownBlockChangesNothing ==
  (lastOp.op = "AcceptBlock" /\ lastOp.kind \notin BlockKinds)
    => /\ err = errUnknownBlockType
       /\ ~panicked
       /\ m = pre

C1_Witness ==
  /\ lastOp.op = "AcceptBlock"
  /\ lastOp.kind \notin BlockKinds
  /\ Constructed(pre)
  /\ err = errUnknownBlockType

\* C2: AcceptTx on a payload outside the nine known variants returns the
\* unknown-transaction-type error and changes no counter; on a payload of a known
\* variant, with the metric set initialized, it increments exactly the counter named
\* after that variant by 1 and returns nil.
C2_AcceptTxCountsItsVariant ==
  lastOp.op = "AcceptTx"
    => /\ lastOp.kind \notin TxKinds
            => (err = errUnknownTxType /\ ~panicked /\ m = pre)
       /\ (lastOp.kind \in TxKinds /\ Constructed(pre))
            => /\ err = NoError
               /\ ~panicked
               /\ MatchingTxCounter(lastOp.kind) \in TxCounters
               /\ OnlyBumped({MatchingTxCounter(lastOp.kind)})

C2_Witness ==
  /\ lastOp.op = "AcceptTx"
  /\ lastOp.kind \notin TxKinds
  /\ Constructed(pre)
  /\ err = errUnknownTxType

\* C3: on an initialized metric set, AcceptBlock on an Abort or Commit block
\* increments exactly the counter named after the block kind by 1, changes no other
\* field and returns nil.
C3_EmptyBlockCountsOnlyItself ==
  (lastOp.op = "AcceptBlock" /\ lastOp.kind \in {"Abort", "Commit"} /\ Constructed(pre))
    => /\ err = NoError
       /\ ~panicked
       /\ MatchingBlockCounter(lastOp.kind) \in BlockCounters
       /\ OnlyBumped({MatchingBlockCounter(lastOp.kind)})

C3_Witness ==
  /\ lastOp.op = "AcceptBlock"
  /\ lastOp.kind = "Commit"
  /\ Constructed(pre)
  /\ Val(m, "numCommitBlocks") = Val(pre, "numCommitBlocks") + 1

\* C4: on an initialized metric set, AcceptBlock on an Atomic or Proposal block
\* increments the block's counter by 1 and returns what AcceptTx returns for the
\* embedded transaction: for a known variant exactly that variant's counter also
\* grows by 1 and the result is nil; for an unknown variant the result is the
\* unknown-transaction-type error, the block counter stays incremented and no
\* transaction counter changes.
C4_SingleTxBlock ==
  (lastOp.op = "AcceptBlock" /\ lastOp.kind \in {"Atomic", "Proposal"} /\ Constructed(pre))
    => /\ ~panicked
       /\ MatchingBlockCounter(lastOp.kind) \in BlockCounters
       /\ IF lastOp.txs[1] \in TxKinds
            THEN /\ err = NoError
                 /\ MatchingTxCounter(lastOp.txs[1]) \in TxCounters
                 /\ OnlyBumped({MatchingBlockCounter(lastOp.kind),
                                MatchingTxCounter(lastOp.txs[1])})
            ELSE /\ err = errUnknownTxType
                 /\ OnlyBumped({MatchingBlockCounter(lastOp.kind)})

C4_Witness ==
  /\ lastOp.op = "AcceptBlock"
  /\ lastOp.kind = "Proposal"
  /\ lastOp.txs = <<UnknownKind>>
  /\ Constructed(pre)
  /\ Val(m, "numProposalBlocks") = Val(pre, "numProposalBlocks") + 1
  /\ err = errUnknownTxType

\* C5: on an initialized metric set, AcceptBlock on a Standard block increments the
\* standard-block counter by 1 and each transaction counter by the number of
\* transactions of its variant that precede the first unknown one; transactions
\* after the first unknown one are not counted; the result is the
\* unknown-transaction-type error if the list holds an unknown transaction and nil
\* otherwise.
C5_StandardBlockStopsAtFirstUnknown ==
  (lastOp.op = "AcceptBlock" /\ lastOp.kind = "Standard" /\ Constructed(pre))
    => /\ ~panicked
       /\ err = IF \E i \in DOMAIN lastOp.txs : lastOp.txs[i] \notin TxKinds
                  THEN errUnknownTxType ELSE NoError
       /\ \A f \in Fields :
            m[f] = <<Val(pre, f) + (IF f = "numStandardBlocks" THEN 1 ELSE 0)
                       + Occurrences(KnownPrefix(lastOp.txs), f)>>

C5_Witness ==
  /\ lastOp.op = "AcceptBlock"
  /\ lastOp.kind = "Standard"
  /\ lastOp.txs = <<UnknownKind, "Export">>
  /\ Constructed(pre)
  /\ m["numExportTxs"] = pre["numExportTxs"]
  /\ Val(m, "numStandardBlocks") = Val(pre, "numStandardBlocks") + 1

\* C6 as stated: Initialize attempts all 16 registrations whatever the outcome of
\* earlier ones, and returns nil if and only if all of them succeeded.
C6_NilIffAllRegistered ==
  lastOp.op = "Initialize"
    => /\ AttemptedAll(lastOp.namespace)
       /\ (err = NoError <=> ExpectedFailed = {})

\* C6, amended: Initialize attempts all 16 registrations, in order, whatever the
\* outcome of earlier ones, records every name the backend accepts, and returns nil
\* if and only if NewAPIInterceptor returned no error and all 16 registrations
\* succeeded.
C6_NilIffInterceptorAndAllRegistered ==
  lastOp.op = "Initialize"
    => /\ AttemptedAll(lastOp.namespace)
       /\ Len(attempted) = 16
       /\ registered = preReg \cup (AllNames(lastOp.namespace) \ ExpectedFailed)
       /\ (err = NoError <=> (lastOp.apiErr = NoError /\ ExpectedFailed = {}))

C6_Witness ==
  /\ lastOp.op = "Initialize"
  /\ "percent_connected" \in rejects
  /\ "platform_total_staked" \in registered
  /\ Len(attempted) = 16
  /\ err # NoError

\* C7: when two or more registrations fail during Initialize, the error returned is
\* non-nil and names every registration that failed.
C7_ErrorNamesEveryFailure ==
  (lastOp.op = "Initialize" /\ Cardinality(ExpectedFailed) >= 2)
    => /\ err # NoError
       /\ \A fq \in ExpectedFailed : RegisterError(fq)[1] \in Range(err)

C7_Witness ==
  /\ lastOp.op = "Initialize"
  /\ Cardinality(ExpectedFailed) >= 2
  /\ lastOp.apiErr = NoError
  /\ Len(err) >= 2

\* C8 as stated: no step of Initialize, AcceptBlock or AcceptTx takes a counter of
\* the metric set to a lower value.
C8_NeverDecreases ==
  [][\A c \in Counters :
       m[c] # <<>> => (m'[c] # <<>> /\ Val(m', c) >= Val(m, c))]_vars

\* C8, amended: every counter is at 0 when Initialize returns, and over any sequence
\* of AcceptBlock and AcceptTx calls it never decreases: a call raises it by 1 for
\* each matching acceptance event the call dispatches and by nothing else, so its
\* value is never below one it held earlier since the last Initialize. Initialize
\* replaces every counter by a fresh one at 0, whatever its value was.
C8_MonotoneBetweenInitializes ==
  /\ lastOp.op = "Initialize" => \A c \in Counters : m[c] = <<0>>
  /\ (lastOp.op \in {"AcceptBlock", "AcceptTx"} /\ Constructed(pre))
       => \A c \in Counters :
            /\ m[c] # <<>>
            /\ Val(m, c) >= Val(pre, c)
            /\ Val(m, c) = Val(pre, c) + BlockEvents(lastOp, c) + TxEvents(lastOp, c)
  /\ (lastOp.op \in {"AcceptBlock", "AcceptTx"} /\ ~Constructed(pre)) => m = pre
  /\ Constructed(m) => \A c \in Counters : Val(m, c) >= peak[c]

\* The third acceptance call in a row counts a variant the first two counted too.
C8_Witness ==
  /\ lastOp.op = "AcceptBlock"
  /\ lastOp.kind = "Standard"
  /\ lastOp.txs = <<"Export">>
  /\ nAccepts = 3
  /\ Constructed(pre)
  /\ Val(pre, "numExportTxs") = 2
  /\ Val(m, "numExportTxs") = 3
  /\ Val(pre, "numAtomicBlocks") = 1
  /\ Val(m, "numAtomicBlocks") = 1
  /\ Val(m, "numStandardBlocks") = 1

\* C10: an Initialize call for a namespace that an earlier Initialize on the same
\* registerer returned nil for attempts all 16 registrations again, each of a name
\* the registerer already holds, and returns a non-nil error.
C10_SecondInitializeFails ==
  (lastOp.op = "Initialize" /\ lastOp.repeat)
    => /\ AttemptedAll(lastOp.namespace)
       /\ Len(attempted) = 16
       /\ \A i \in DOMAIN attempted : attempted[i] \in preReg
       /\ err # NoError

C10_Witness ==
  /\ lastOp.op = "Initialize"
  /\ lastOp.repeat
  /\ lastOp.apiErr = NoError
  /\ nInits = 2
  /\ err # NoError

AllReturned == threads # <<>> /\ \A t \in DOMAIN threads : threads[t].pc = "done"

RECURSIVE EventsUpTo(_, _)
EventsUpTo(t, c) ==
  IF t = 0 THEN 0
  ELSE BlockEvents(threads[t].call, c) + TxEvents(threads[t].call, c)
         + EventsUpTo(t - 1, c)

\* What a call returns: the error of the first thing it cannot classify.
ExpectedReturn(call) ==
  IF call.op = "AcceptBlock" /\ call.kind \notin BlockKinds THEN errUnknownBlockType
  ELSE IF \E i \in DOMAIN call.txs : call.txs[i] \notin TxKinds THEN errUnknownTxType
  ELSE NoError

\* C9: once all concurrent AcceptBlock and AcceptTx calls issued after Initialize
\* have returned, every counter equals the number of matching acceptance events the
\* calls dispatched, whatever the interleaving of their increments, and every call
\* returned what it returns when run alone.
C9_NoLostIncrement ==
  AllReturned
    => /\ \A c \in Counters : Val(m, c) = EventsUpTo(Len(threads), c)
       /\ \A t \in DOMAIN threads : threads[t].ret = ExpectedReturn(threads[t].call)

C9_Witness ==
  /\ AllReturned
  /\ threads[1].call.kind = "Standard"
  /\ threads[1].call.txs = <<"Export">>
  /\ threads[2].call.op = "AcceptTx"
  /\ threads[2].call.kind = "Export"
  /\ Val(m, "numExportTxs") = 2

====
